---- MODULE Spec2Model ----
(***************************************************************************)
(* Model of the clio test harness (src/test.py): the paginated crawls      *)
(* account_tx_full, ledger_data_full and book_offers against a paginated   *)
(* source, the comparison functions isSubset, compare_offer,               *)
(* compareAccountTx and verifySubscribe.compareObjects, the object records *)
(* of ledger_data, the stream run verifySubscribe against its two servers, *)
(* the load runs txs and ledgers, the exit status of run,                  *)
(* compare_book_offers, the type filter and the limit of ledger_data_full, *)
(* compareTx, the connections of the workers, and the request account_tx   *)
(* sends to the reference under verify.                                    *)
(***************************************************************************)
EXTENDS Integers, Sequences, FiniteSets, TLC

VARIABLES
    \* ---- the crawl and the source it talks to ----
    fn,         \* which crawl runs: "account_tx_full", "ledger_data_full", "book_offers"
    srcK,       \* number of items the source holds
    srcP,       \* number of items the source serves per page
    wrapped,    \* the source wraps its payloads under "result"
    spelling,   \* where the source puts its continuation token: "cursor", "marker", "both"
    count,      \* ledger_data_full's count argument (-1: no ceiling)
    pc,         \* "send": about to ws.send, "recv": awaiting ws.recv, "done": function left
    cursor,     \* the crawl's local cursor
    marker,     \* the crawl's local marker
    req,        \* the request last sent
    res,        \* the response last received
    results,    \* the accumulated items (results["transactions"], state, offers)
    numCalls,   \* requests sent so far
    errs,       \* consecutive error responses answered by `continue`
    ret,        \* what the caller got: "pending", "results", "None", "raised"
    cause,      \* why the crawl ended abnormally: "none", "closed", "KeyError"
    faults,     \* kinds of non-page behaviour the source has shown so far
    \* ---- the comparison functions ----
    op,         \* which comparison is applied
    argA,       \* first argument (aldous / sub / clio)
    argB,       \* second argument (p2p / sup / ripd)
    baseA,      \* first argument as first drawn (before duplicates arrive)
    baseB,      \* second argument as first drawn
    cpc,        \* "call": not yet applied, "returned": applied
    verdict,    \* outcome of the comparison
    report,     \* what the comparison printed about mismatching fields
    \* ---- verifySubscribe and the two servers it subscribes to ----
    spc,        \* where verifySubscribe stands: "subscribe", "first1", "first2",
                \* "get1", "get2", "aborted" (assert / NameError), "failed" (recv raised)
    ws,         \* ws[1] is ws1 (clio), ws[2] is ws2 (rippled): the messages not yet
                \* received, whether the peer closed, and the server's open ledger
    res1,       \* the message last parsed from ws1
    res2,       \* the message last parsed from ws2
    txns,       \* getAllTxns' list under construction
    clioTxns,   \* the list getAllTxns(ws1) last returned
    ripdTxns,   \* the list getAllTxns(ws2) last returned
    sverdict,   \* outcome of the compareObjects call just made, "none" otherwise
    ackIn,      \* the subscribe acknowledgements as the servers sent them
    readAny,    \* a stream message has been received
    \* ---- the load runs (txs, ledgers) ----
    action,     \* args.action: "txs" or "ledgers"
    numRunners, \* int(args.numRunners)
    maxCalls,   \* int(args.numCalls), the calls each worker is to issue
    now,        \* datetime.datetime.now(), in units of 100 ms
    rpc,        \* the main program: "init", "running", "reported", "raised"
    start,      \* the time taken before asyncio.run
    end,        \* the time taken after asyncio.run
    tasks,      \* the workers: position, calls completed, times of the last call
                \* and whether it was reported slow ("none" while a call is under way)
    summary     \* the "Completed ..." line: the call count and the elapsed time

crawlVars == <<fn, srcK, srcP, wrapped, spelling, count, pc, cursor, marker, req,
               res, results, numCalls, errs, ret, cause, faults>>
cmpVars == <<op, argA, argB, baseA, baseB, cpc, verdict, report>>
streamVars == <<spc, ws, res1, res2, txns, clioTxns, ripdTxns, sverdict, ackIn, readAny>>
loadVars == <<action, numRunners, maxCalls, now, rpc, start, end, tasks, summary>>
restVars == <<streamVars, loadVars>>
vars == <<crawlVars, cmpVars, restVars>>

\* ------------------------------------------------------------------ bounds
MaxK == 3
MaxP == 2
MaxFetch == 5
RetryLimit == 3

\* Python's None for a cursor or marker; tokens proper are positions >= 1.
None == 0

Min(a, b) == IF a < b THEN a ELSE b
Max(a, b) == IF a > b THEN a ELSE b
Ceil(a, b) == (a + b - 1) \div b

\* ------------------------------------------------------------ the source
\* The K items the source holds, in source order.
Source == [i \in 1..srcK |-> i]

PageItems(t) == SubSeq(Source, t + 1, Min(t + srcP, srcK))
NextToken(t) == IF t + srcP < srcK THEN t + srcP ELSE None

\* The token the source reads from a request, under its own spelling.
ServerToken(rq) == IF spelling = "marker" THEN rq.marker ELSE rq.cursor

NoRes == [kind |-> "none", wrapped |-> FALSE, error |-> FALSE, items |-> <<>>,
          cursor |-> None, marker |-> None, asked |-> None]

\* A payload of the source: the page that follows token t, continued by tok.
Payload(kind, t, tok) ==
    [kind |-> kind, wrapped |-> wrapped, error |-> FALSE, items |-> PageItems(t),
     cursor |-> IF spelling \in {"cursor", "both"} THEN tok ELSE None,
     marker |-> IF spelling \in {"marker", "both"} THEN tok ELSE None,
     asked |-> t]

ErrorPayload(t) ==
    [kind |-> "error", wrapped |-> wrapped, error |-> TRUE, items |-> <<>>,
     cursor |-> None, marker |-> None, asked |-> t]

\* A payload with no item list, no continuation token and no error field.
MalformedPayload(t) ==
    [kind |-> "malformed", wrapped |-> wrapped, error |-> FALSE, items |-> <<>>,
     cursor |-> None, marker |-> None, asked |-> t]

\* -------------------------------------------------- python's dict lookups
\* res["transactions"], res["objects"], res["offers"] (or the list under
\* "result") is not there.
Missing(r) == r.kind = "malformed"
TopCursor(r) == ~r.error /\ ~r.wrapped /\ r.cursor # None      \* "cursor" in res
TopMarker(r) == ~r.error /\ ~r.wrapped /\ r.marker # None      \* "marker" in res
ResultMarker(r) == ~r.error /\ r.wrapped /\ r.marker # None    \* "marker" in res["result"]
TopError(r) == r.error /\ ~r.wrapped                           \* "error" in res
HasResult(r) == r.wrapped                                      \* "result" in res

\* ------------------------------------------------- outcomes of one round
Raise(exc) ==
    [results |-> results, cursor |-> cursor, marker |-> marker, errs |-> errs,
     pc |-> "done", ret |-> "raised", cause |-> exc]
\* A round that ends in another request where the function returns.
Resend(rs, c, m) ==
    [results |-> rs, cursor |-> c, marker |-> m, errs |-> 0,
     pc |-> "send", ret |-> "pending", cause |-> "none"]

Return(rs, c, m) ==
    [results |-> rs, cursor |-> c, marker |-> m, errs |-> 0,
     pc |-> "done", ret |-> "results", cause |-> "none"]
Again(rs, c, m, e) ==
    [results |-> rs, cursor |-> c, marker |-> m, errs |-> e,
     pc |-> "send", ret |-> "pending", cause |-> "none"]

\* account_tx_full, from the response to the end of the loop body.
account_tx_full(r) ==
    IF r.error \/ Missing(r) THEN Raise("KeyError")
    ELSE LET rs == results \o r.items
             c == IF TopCursor(r) THEN r.cursor ELSE cursor
         IN  IF TopMarker(r) THEN Again(rs, c, r.marker, 0)
             ELSE IF HasResult(r) /\ ResultMarker(r) THEN Again(rs, c, r.marker, 0)
             ELSE Return(rs, c, marker)

\* book_offers, from the response to the end of the loop body.
book_offers(r) ==
    IF r.error \/ Missing(r) THEN Raise("KeyError")
    ELSE LET rs == results \o r.items
         IN  IF r.cursor # None THEN Again(rs, r.cursor, marker, 0)
             ELSE Return(rs, cursor, marker)

\* state[x["index"]] = x["data"] for every x of the page: a key already in the
\* dict keeps its place, a new key is appended.
RECURSIVE StateInsert(_, _)
StateInsert(state, items) ==
    IF items = <<>> THEN state
    ELSE LET x == Head(items)
             present == \E i \in DOMAIN state : state[i] = x
         IN  StateInsert(IF present THEN state ELSE Append(state, x), Tail(items))

\* ledger_data_full starting over, its marker dropped, after an error response.
ledger_data_full_restart(r) ==
    IF TopError(r) THEN Again(results, cursor, None, errs + 1)
    ELSE IF r.error \/ Missing(r) THEN Raise("KeyError")
    ELSE LET state == StateInsert(results, r.items)
         IN  IF count # -1 /\ Len(state) > count THEN Return(state, cursor, marker)
             ELSE IF TopCursor(r) THEN Again(state, cursor, r.cursor, 0)
             ELSE IF HasResult(r) /\ ResultMarker(r) THEN Again(state, cursor, r.marker, 0)
             ELSE Return(state, cursor, marker)

\* ledger_data_full, from the response to the end of the loop body.
ledger_data_full(r) ==
    IF TopError(r) THEN Again(results, cursor, marker, errs + 1)
    ELSE IF r.error \/ Missing(r) THEN Raise("KeyError")
    ELSE LET state == StateInsert(results, r.items)
         IN  IF count # -1 /\ Len(state) > count THEN Return(state, cursor, marker)
             ELSE IF TopCursor(r) THEN Again(state, cursor, r.cursor, 0)
             ELSE IF HasResult(r) /\ ResultMarker(r) THEN Again(state, cursor, r.marker, 0)
             ELSE Return(state, cursor, marker)

Step(r) ==
    CASE fn = "account_tx_full" -> account_tx_full(r)
      [] fn = "ledger_data_full" -> ledger_data_full(r)
      [] OTHER -> book_offers(r)

\* A request that carries no token.
RequestNoToken == [cursor |-> None, marker |-> None]

\* The request a crawl builds from its locals.
Request ==
    CASE fn = "account_tx_full" -> [cursor |-> cursor, marker |-> marker]
      [] fn = "ledger_data_full" -> [cursor |-> marker, marker |-> marker]
      [] OTHER -> [cursor |-> cursor, marker |-> None]

\* What a closed connection leaves the caller with.
OnClosed ==
    IF fn = "account_tx_full" THEN "None" ELSE "raised"

\* ----------------------------------------------------------- the crawl
Fns == {"account_tx_full", "ledger_data_full", "book_offers"}
Spellings == {"cursor", "marker", "both"}

NoMsg == [type |-> "none"]

StreamIdle ==
    /\ spc = "idle" /\ ws = <<>> /\ res1 = NoMsg /\ res2 = NoMsg /\ txns = <<>>
    /\ clioTxns = <<>> /\ ripdTxns = <<>> /\ sverdict = "none" /\ ackIn = "none"
    /\ readAny = FALSE

NoSummary == [num |-> 0, elapsed |-> 0, printed |-> FALSE]

LoadIdle ==
    /\ action = "none" /\ numRunners = 0 /\ maxCalls = 0 /\ now = 0 /\ rpc = "idle"
    /\ start = 0 /\ end = 0 /\ tasks = <<>> /\ summary = NoSummary

RestIdle == StreamIdle /\ LoadIdle

CmpIdle ==
    /\ op = "none" /\ argA = <<>> /\ argB = <<>> /\ baseA = <<>> /\ baseB = <<>>
    /\ cpc = "idle" /\ verdict = "none" /\ report = [printed |-> <<>>, checked |-> 0]

InitCrawl ==
    /\ RestIdle
    /\ fn \in Fns
    /\ srcK \in 1..MaxK
    /\ srcP \in 1..MaxP
    /\ wrapped \in BOOLEAN
    /\ spelling \in Spellings
    /\ count \in IF fn = "ledger_data_full" THEN {-1} \cup (1..MaxK) ELSE {-1}
    /\ pc = "send"
    /\ cursor = None /\ marker = None
    /\ req = [cursor |-> None, marker |-> None]
    /\ res = NoRes
    /\ results = <<>>
    /\ numCalls = 0 /\ errs = 0
    /\ ret = "pending" /\ cause = "none"
    /\ faults = {}
    /\ CmpIdle

Config == <<fn, srcK, srcP, wrapped, spelling, count>>

\* await ws.send(json.dumps(req))
Send ==
    /\ pc = "send"
    /\ numCalls < MaxFetch
    /\ req' = Request
    /\ numCalls' = numCalls + 1
    /\ pc' = "recv"
    /\ UNCHANGED <<Config, cursor, marker, res, results, errs, ret, cause, faults, cmpVars, restVars>>

Receive(r) ==
    LET s == Step(r)
    IN  /\ res' = r
        /\ results' = s.results
        /\ cursor' = s.cursor
        /\ marker' = s.marker
        /\ errs' = s.errs
        /\ pc' = s.pc
        /\ ret' = s.ret
        /\ cause' = s.cause
        /\ UNCHANGED <<Config, req, numCalls, cmpVars, restVars>>

\* res = json.loads(await ws.recv()): the source serves the page after the token.
RecvPage ==
    /\ pc = "recv"
    /\ LET t == ServerToken(req) IN Receive(Payload("page", t, NextToken(t)))
    /\ UNCHANGED faults

\* The source answers with the very cursor it was sent.
RecvLoop ==
    /\ pc = "recv"
    /\ ServerToken(req) # None
    /\ LET t == ServerToken(req) IN Receive(Payload("loop", t, t))
    /\ faults' = faults \cup {"loop"}

\* The source answers with a payload carrying an error field.
RecvError ==
    /\ pc = "recv"
    /\ Receive(ErrorPayload(ServerToken(req)))
    /\ faults' = faults \cup {"error"}

\* The source answers with a payload in which nothing is where it is looked for.
RecvMalformed ==
    /\ pc = "recv"
    /\ Receive(MalformedPayload(ServerToken(req)))
    /\ faults' = faults \cup {"malformed"}

\* ws.send or ws.recv raises: the connection is closed.
ConnectionClosed ==
    /\ pc \in {"send", "recv"}
    /\ pc' = "done"
    /\ ret' = OnClosed
    /\ cause' = "closed"
    /\ faults' = faults \cup {"closed"}
    /\ UNCHANGED <<Config, cursor, marker, req, res, results, numCalls, errs, cmpVars, restVars>>

NextCrawl ==
    Send \/ RecvPage \/ RecvLoop \/ RecvError \/ RecvMalformed \/ ConnectionClosed

SpecCrawl == InitCrawl /\ [][NextCrawl]_vars

\* ------------------------------------------------------- crawl properties
\* The crawl stopped because a count ceiling was reached.
CeilingReached == count # -1 /\ Len(results) > count

\* The token a response carries, under whichever spelling.
Continuation(r) == IF r.cursor # None THEN r.cursor ELSE r.marker

\* C1: against a source of K items served P per page, with a continuation token
\* on every page but the last, a full crawl returns exactly the K items in
\* source order after exactly ceil(K/P) requests.
C1_PaginationComplete ==
    (pc = "done" /\ faults = {} /\ count = -1)
        => (ret = "results" /\ results = Source /\ numCalls = Ceil(srcK, srcP))

\* C2: once the source has answered with the very cursor it was sent, the crawl
\* has ended with a LoopDetected error: it is not about to send that cursor
\* again, nor waiting for another page.
C2_LoopDetected ==
    ("loop" \in faults) => (pc = "done" /\ cause = "LoopDetected")

\* C3: ledger_data_full answers error payloads with at most RetryLimit
\* consecutive retries before it gives up.
C3_BoundedRetry ==
    (fn = "ledger_data_full") => errs <= RetryLimit

\* C4: when the connection closes after at least one page was accumulated, the
\* caller is handed the items accumulated so far.
C4_PartialResultKept ==
    (pc = "done" /\ cause = "closed" /\ results # <<>>) => ret = "results"

\* C5: a crawl returns for lack of continuation only when the last response
\* carried no token under either spelling.
C5_EitherSpelling ==
    (pc = "done" /\ ret = "results" /\ ~CeilingReached)
        => (res.cursor = None /\ res.marker = None)

\* The crawls are complete whenever the source spells and places its token
\* where the crawl looks for it.
Understood ==
    CASE fn = "account_tx_full" -> spelling \in {"marker", "both"}
      [] fn = "ledger_data_full" ->
            (~wrapped /\ spelling \in {"cursor", "both"})
            \/ (wrapped /\ spelling \in {"marker", "both"})
      [] OTHER -> spelling \in {"cursor", "both"}

CompleteWhenUnderstood ==
    (pc = "done" /\ faults = {} /\ count = -1 /\ Understood)
        => (ret = "results" /\ results = Source /\ numCalls = Ceil(srcK, srcP))

\* C30: a response with no item list, no token and no error field ends the
\* crawl, and the caller gets the items of the pages before it.
C30_MalformedSurfaced ==
    res.kind = "malformed" => (pc = "done" /\ ret = "results")

\* The same payload under the top-level "result" key, and without it.
Wrapped(r) == [r EXCEPT !.wrapped = TRUE]
Unwrapped(r) == [r EXCEPT !.wrapped = FALSE]

\* What a round leaves that matters to the rest of the crawl: the items, the
\* next move and, when another request follows, the tokens it will carry.
Outcome(s) ==
    [results |-> s.results, pc |-> s.pc, ret |-> s.ret,
     tokens |-> IF s.pc = "send" THEN <<s.cursor, s.marker>> ELSE <<None, None>>]

\* C24: whatever the crawl has accumulated, the page the source is about to
\* send leaves it with the same items, the same tokens to send and the same
\* next move whether it comes wrapped under "result" or not.
C24_WrapperTransparent ==
    pc = "recv" =>
        LET t == ServerToken(req)
            r == Payload("page", t, NextToken(t))
        IN  Outcome(Step(Wrapped(r))) = Outcome(Step(Unwrapped(r)))

\* =================================================== comparison functions
CrawlIdle ==
    /\ fn = "none" /\ srcK = 0 /\ srcP = 0 /\ wrapped = FALSE /\ spelling = "none"
    /\ count = -1 /\ pc = "idle" /\ cursor = None /\ marker = None
    /\ req = [cursor |-> None, marker |-> None] /\ res = NoRes /\ results = <<>>
    /\ numCalls = 0 /\ errs = 0 /\ ret = "pending" /\ cause = "none" /\ faults = {}

NoReport == [printed |-> <<>>, checked |-> 0]

\* The elements of a sequence, as a set.
ToSet(s) == {s[i] : i \in DOMAIN s}

\* All sequences over S of length at most n.
SeqUpTo(S, n) == UNION {[1..m -> S] : m \in 0..n}

\* ------------------------------------------- isSubset and compare_offer
MaxFields == 2

Keys == {"a", "b", "deserialization_time_microsecond",
         "deserialization_time_microseconds"}
Vals == {1, 2}

\* A python dict as it is iterated: its (key, value) pairs in insertion order.
Dicts == {d \in SeqUpTo(Keys \X Vals, MaxFields) :
            \A i, j \in DOMAIN d : i # j => d[i][1] # d[j][1]}

\* A python dict as it is looked up: a function on the keys it holds.
Lookups == UNION {[S -> Vals] : S \in SUBSET Keys}

\* isSubset's loop from the i-th field of sub on; the outcome carries the
\* number of fields the loop looked at before it returned.
RECURSIVE isSubsetFrom(_, _, _)
isSubsetFrom(sub, sup, i) ==
    IF i > Len(sub) THEN [value |-> TRUE, checked |-> Len(sub)]
    ELSE LET x == sub[i][1]
         IN  IF x = "deserialization_time_microsecond" THEN isSubsetFrom(sub, sup, i + 1)
             ELSE IF ~(x \in DOMAIN sup) THEN [value |-> FALSE, checked |-> i]
             ELSE IF ~(sub[i][2] = sup[x]) THEN [value |-> FALSE, checked |-> i]
             ELSE isSubsetFrom(sub, sup, i + 1)

\* isSubset without its presence test: a field missing from sup passes.
RECURSIVE isSubsetPresentOnlyFrom(_, _, _)
isSubsetPresentOnlyFrom(sub, sup, i) ==
    IF i > Len(sub) THEN [value |-> TRUE, checked |-> Len(sub)]
    ELSE LET x == sub[i][1]
         IN  IF x = "deserialization_time_microsecond"
                 THEN isSubsetPresentOnlyFrom(sub, sup, i + 1)
             ELSE IF x \in DOMAIN sup /\ ~(sub[i][2] = sup[x])
                 THEN [value |-> FALSE, checked |-> i]
             ELSE isSubsetPresentOnlyFrom(sub, sup, i + 1)

isSubsetPresentOnly(sub, sup) == isSubsetPresentOnlyFrom(sub, sup, 1)

isSubset(sub, sup) == isSubsetFrom(sub, sup, 1)

\* compare_offer's loop from the i-th field of aldous on: the verdict, the field
\* names it printed and the number of fields it looked at.
RECURSIVE compare_offer_from(_, _, _)
compare_offer_from(aldous, p2p, i) ==
    IF i > Len(aldous)
        THEN [verdict |-> "True", printed |-> <<>>, checked |-> Len(aldous)]
    ELSE LET k == aldous[i][1]
             v == aldous[i][2]
         IN  IF k = "deserialization_time_microseconds"
                 THEN compare_offer_from(aldous, p2p, i + 1)
             ELSE IF ~(k \in DOMAIN p2p)
                 THEN [verdict |-> "KeyError", printed |-> <<>>, checked |-> i]
             ELSE IF p2p[k] # v
                 THEN [verdict |-> "False", printed |-> <<k>>, checked |-> i]
             ELSE compare_offer_from(aldous, p2p, i + 1)

compare_offer(aldous, p2p) == compare_offer_from(aldous, p2p, 1)

InitSubset ==
    /\ CrawlIdle /\ RestIdle
    /\ op \in {"isSubset", "compare_offer"}
    /\ argA \in Dicts
    /\ argB \in Lookups
    /\ baseA = argA /\ baseB = argB
    /\ cpc = "call" /\ verdict = "none" /\ report = NoReport

ApplyIsSubset ==
    /\ cpc = "call" /\ op = "isSubset"
    /\ LET r == isSubset(argA, argB)
       IN  /\ verdict' = IF r.value THEN "True" ELSE "False"
           /\ report' = [printed |-> <<>>, checked |-> r.checked]
    /\ cpc' = "returned"
    /\ UNCHANGED <<crawlVars, restVars, op, argA, argB, baseA, baseB>>

ApplyCompareOffer ==
    /\ cpc = "call" /\ op = "compare_offer"
    /\ LET r == compare_offer(argA, argB)
       IN  /\ verdict' = r.verdict
           /\ report' = [printed |-> r.printed, checked |-> r.checked]
    /\ cpc' = "returned"
    /\ UNCHANGED <<crawlVars, restVars, op, argA, argB, baseA, baseB>>

NextSubset == ApplyIsSubset \/ ApplyCompareOffer

SpecSubset == InitSubset /\ [][NextSubset]_vars

\* The volatile field each of the two functions leaves out.
Excluded ==
    IF op = "isSubset" THEN "deserialization_time_microsecond"
    ELSE "deserialization_time_microseconds"

\* The source fields, other than the excluded one, that are missing from the
\* target or differ in it.
Mismatching ==
    {argA[i][1] : i \in {j \in DOMAIN argA :
        /\ argA[j][1] # Excluded
        /\ ~(argA[j][1] \in DOMAIN argB /\ argB[argA[j][1]] = argA[j][2])}}

\* C8: isSubset(source, target) is True exactly when every source field other
\* than the excluded volatile field is in target with an equal value; what
\* target holds beyond that plays no part.
C8_IsSubsetExact ==
    (cpc = "returned" /\ op = "isSubset")
        => ((verdict = "True") <=> (Mismatching = {}))

\* C8 witness: isSubset returned True on a source whose volatile field is not
\* in the target and a target with a field the source lacks.
C8_Witness ==
    /\ cpc = "returned" /\ op = "isSubset" /\ verdict = "True"
    /\ \E i \in DOMAIN argA :
          /\ argA[i][1] = "deserialization_time_microsecond"
          /\ ~(argA[i][1] \in DOMAIN argB)
    /\ \E i \in DOMAIN argA : argA[i][1] = "a"
    /\ "b" \in DOMAIN argB

\* C9: the structural-subset compare looks at every source field and its
\* report lists every non-excluded source field missing from or differing in
\* the target; the verdict is a match only when that list is empty.
C9_AllMismatchesReported ==
    (cpc = "returned" /\ op \in {"isSubset", "compare_offer"})
        => /\ report.checked = Len(argA)
           /\ (op = "compare_offer" => ToSet(report.printed) = Mismatching)
           /\ (verdict = "True") <=> (Mismatching = {})

\* ------------------------------------------------------ compareAccountTx
MaxTx == 2

Blobs == {1, 2}
Metas == {1, 2}
Ledgers == {1, 2, 3}

\* aldous["transactions"]: the candidate's records.
AldousTxs == [transaction : Blobs, metadata : Metas, ledger_sequence : Ledgers]
\* p2p["transactions"] (after the "result" wrapper is taken off): the reference's.
P2pTxs == [tx_blob : Blobs, meta : Metas, ledger_index : Ledgers]

\* The ledger sequence of a record of either side.
SeqOf(x) ==
    IF "ledger_sequence" \in DOMAIN x THEN x.ledger_sequence ELSE x.ledger_index

\* getMinAndMax: (minSeq, maxSeq) over the transactions, (None, None) if none.
getMinAndMax(txs) ==
    IF txs = <<>> THEN <<None, None>>
    ELSE LET seqs == {SeqOf(txs[i]) : i \in DOMAIN txs}
         IN  <<CHOOSE m \in seqs : \A n \in seqs : m <= n,
               CHOOSE m \in seqs : \A n \in seqs : m >= n>>

\* list.sort() on a list of numbers: insertion into ascending order.
RECURSIVE InsertSorted(_, _)
InsertSorted(sorted, x) ==
    IF sorted = <<>> THEN <<x>>
    ELSE IF x < Head(sorted) THEN <<x>> \o sorted
    ELSE <<Head(sorted)>> \o InsertSorted(Tail(sorted), x)

RECURSIVE SortList(_)
SortList(l) ==
    IF l = <<>> THEN <<>>
    ELSE InsertSorted(SortList(SubSeq(l, 1, Len(l) - 1)), l[Len(l)])

\* One field of every record, in list order.
Column(txs, f) == [i \in DOMAIN txs |-> txs[i][f]]

\* compareAccountTx: what it prints, "match" or "mismatch" (it returns None).
compareAccountTx(aldous, p2p) ==
    LET maxLedger == getMinAndMax(aldous)[2]
        minLedger == getMinAndMax(p2p)[1]
        p2pTxns == SortList(Column(p2p, "tx_blob"))
        p2pMetas == SortList(Column(p2p, "meta"))
        p2pLedgerSequences == SortList(Column(p2p, "ledger_index"))
        aldousTxns == SortList(Column(aldous, "transaction"))
        aldousMetas == SortList(Column(aldous, "metadata"))
        aldousLedgerSequences == SortList(Column(aldous, "ledger_sequence"))
    IN  IF /\ p2pTxns = aldousTxns
           /\ p2pMetas = aldousMetas
           /\ p2pLedgerSequences = aldousLedgerSequences
        THEN "match" ELSE "mismatch"

InitAccountTx ==
    /\ CrawlIdle /\ RestIdle
    /\ op = "compareAccountTx"
    /\ argA \in SeqUpTo(AldousTxs, MaxTx)
    /\ argB \in SeqUpTo(P2pTxs, MaxTx)
    /\ baseA = argA /\ baseB = argB
    /\ cpc = "call" /\ verdict = "none" /\ report = NoReport

ApplyCompareAccountTx ==
    /\ cpc = "call" /\ op = "compareAccountTx"
    /\ verdict' = compareAccountTx(argA, argB)
    /\ cpc' = "returned"
    /\ UNCHANGED <<crawlVars, restVars, op, argA, argB, baseA, baseB, report>>

NextAccountTx == ApplyCompareAccountTx

SpecAccountTx == InitAccountTx /\ [][NextAccountTx]_vars

\* The identity tuple of a record of either side.
TupleOf(x) ==
    IF "transaction" \in DOMAIN x
        THEN <<x.transaction, x.metadata, x.ledger_sequence>>
        ELSE <<x.tx_blob, x.meta, x.ledger_index>>

\* Two lists of records hold the same multiset of identity tuples.
SameTuples(a, b) ==
    \A t \in Blobs \X Metas \X Ledgers :
        Cardinality({i \in DOMAIN a : TupleOf(a[i]) = t})
            = Cardinality({i \in DOMAIN b : TupleOf(b[i]) = t})

\* The records whose ledger sequence lies in [lo, hi].
Within(txs, lo, hi) == SelectSeq(txs, LAMBDA x : lo <= SeqOf(x) /\ SeqOf(x) <= hi)

\* C6: two results whose ledger ranges overlap, and that hold the same
\* transactions (at least one) inside the overlap window
\* [max(minA,minB), min(maxA,maxB)], are reported as a match, whatever they
\* hold outside the window.
C6_RangeSkewTolerated ==
    (cpc = "returned" /\ op = "compareAccountTx" /\ argA # <<>> /\ argB # <<>>)
        => LET lo == Max(getMinAndMax(argA)[1], getMinAndMax(argB)[1])
               hi == Min(getMinAndMax(argA)[2], getMinAndMax(argB)[2])
           IN  (/\ Within(argA, lo, hi) # <<>>
                /\ SameTuples(Within(argA, lo, hi), Within(argB, lo, hi)))
                   => verdict = "match"

\* C7: compareAccountTx reports a match only when the two sides hold the same
\* multiset of whole (blob, metadata, ledger sequence) tuples.
C7_WholeTuples ==
    (cpc = "returned" /\ op = "compareAccountTx" /\ verdict = "match")
        => SameTuples(argA, argB)

\* ------------------------------------------ verifySubscribe.compareObjects
MaxBatch == 2
MaxDup == 2

\* Transaction events: x["transaction"]["hash"] and the rest of the event.
\* Two of them share a hash and differ in the rest.
Events == {[hash |-> 1, body |-> 1], [hash |-> 1, body |-> 2], [hash |-> 2, body |-> 1]}

\* list.sort(key = hash) is stable: x goes after every element whose hash is
\* not greater than its own.
RECURSIVE InsertByHash(_, _)
InsertByHash(sorted, x) ==
    IF sorted = <<>> THEN <<x>>
    ELSE IF x.hash < Head(sorted).hash THEN <<x>> \o sorted
    ELSE <<Head(sorted)>> \o InsertByHash(Tail(sorted), x)

RECURSIVE SortByHash(_)
SortByHash(l) ==
    IF l = <<>> THEN <<>>
    ELSE InsertByHash(SortByHash(SubSeq(l, 1, Len(l) - 1)), l[Len(l)])

\* Filtered without its membership test: every element is kept.
FilteredKeepAll(l) == l

\* for x in l: if x not in filtered: filtered.append(x)
RECURSIVE FilteredFrom(_, _)
FilteredFrom(filtered, l) ==
    IF l = <<>> THEN filtered
    ELSE FilteredFrom(IF Head(l) \in ToSet(filtered) THEN filtered
                      ELSE Append(filtered, Head(l)), Tail(l))

Filtered(l) == FilteredFrom(<<>>, l)

\* compareObjects on two lists of transaction events: it returns True, returns
\* False (the lengths differ), or raises NameError (line 912 reads z, which no
\* scope defines) at the first pair that differs.
compareObjects(clio, ripd) ==
    LET clioFiltered == Filtered(SortByHash(clio))
        ripdFiltered == Filtered(SortByHash(ripd))
    IN  IF clioFiltered = ripdFiltered THEN "True"
        ELSE IF Len(clioFiltered) # Len(ripdFiltered) THEN "False"
        ELSE "NameError"

\* l with a second copy of its i-th element put right after its j-th, j >= i.
Repeated(l, i, j) == SubSeq(l, 1, j) \o <<l[i]>> \o SubSeq(l, j + 1, Len(l))

Dups == (Len(argA) - Len(baseA)) + (Len(argB) - Len(baseB))

InitObjects ==
    /\ CrawlIdle /\ RestIdle
    /\ op = "compareObjects"
    /\ argA \in SeqUpTo(Events, MaxBatch)
    /\ argB \in SeqUpTo(Events, MaxBatch)
    /\ baseA = argA /\ baseB = argB
    /\ cpc = "call" /\ verdict = "none" /\ report = NoReport

\* getAllTxns(ws1) appends an event clio delivers a second time.
RepeatClio ==
    /\ cpc = "call" /\ op = "compareObjects" /\ Dups < MaxDup
    /\ \E i \in DOMAIN argA : \E j \in i..Len(argA) : argA' = Repeated(argA, i, j)
    /\ UNCHANGED <<crawlVars, restVars, op, argB, baseA, baseB, cpc, verdict, report>>

\* getAllTxns(ws2) appends an event rippled delivers a second time.
RepeatRipd ==
    /\ cpc = "call" /\ op = "compareObjects" /\ Dups < MaxDup
    /\ \E i \in DOMAIN argB : \E j \in i..Len(argB) : argB' = Repeated(argB, i, j)
    /\ UNCHANGED <<crawlVars, restVars, op, argA, baseA, baseB, cpc, verdict, report>>

\* compareObjects(clioTxns, ripdTxns); both lists are sorted in place.
ApplyCompareObjects ==
    /\ cpc = "call" /\ op = "compareObjects"
    /\ verdict' = compareObjects(argA, argB)
    /\ argA' = SortByHash(argA)
    /\ argB' = SortByHash(argB)
    /\ cpc' = "returned"
    /\ UNCHANGED <<crawlVars, restVars, op, baseA, baseB, report>>

NextObjects == RepeatClio \/ RepeatRipd \/ ApplyCompareObjects

SpecObjects == InitObjects /\ [][NextObjects]_vars

\* C10: the verdict of compareObjects on two batches in which events were
\* delivered again is the verdict on the batches without those repeats.
C10_RepeatsIgnored ==
    (cpc = "returned" /\ op = "compareObjects")
        => verdict = compareObjects(baseA, baseB)

\* C10 witness: a side holding X, X, Y was compared with a side holding X, Y,
\* and matched.
C10_Witness ==
    /\ cpc = "returned" /\ op = "compareObjects" /\ verdict = "True"
    /\ Len(baseA) = 2 /\ baseA[1] # baseA[2]
    /\ Len(argA) = 3 /\ Len(argB) = 2

\* The arrival orders of the events of l.
Orders(l) ==
    {[i \in DOMAIN l |-> l[f[i]]] :
        f \in {g \in [DOMAIN l -> DOMAIN l] : \A i, j \in DOMAIN l : g[i] = g[j] => i = j}}

\* C32: the verdict compareObjects gave on two batches is the verdict it gives
\* on the same events of either side in any other order of arrival.
C32_OrderIndependent ==
    (cpc = "returned" /\ op = "compareObjects" /\ Dups = 0)
        => \A a \in Orders(baseA), b \in Orders(baseB) :
                compareObjects(a, b) = verdict

\* ------------------------------------------ ledger_data: object records
MaxObjects == 2

\* The length a ledger object key is checked against.
KeyLen == 64

\* Keys as the server may send them: an identity, a length in characters and
\* whether every character is a hexadecimal digit.
ObjectKeys == [id : {1, 2}, len : {KeyLen - 1, KeyLen, KeyLen + 1}, hex : BOOLEAN]

\* The type tags an object carries (x["data"][2:6], x["LedgerEntryType"]).
EntryTypes == {"0061", "006f"}

\* The records of res["result"]["state"] / res["objects"].
ObjectRecords == [index : ObjectKeys, type : EntryTypes]

\* ledger_data, from the response on: with binary set it returns (keys, blobs)
\* and prints "bad key" for a key whose length is not 64; without, it falls
\* off its end and returns None.
RECURSIVE ledger_data_from(_, _, _, _)
ledger_data_from(objects, keys, blobs, printed) ==
    IF objects = <<>>
        THEN [value |-> [returned |-> "tuple", keys |-> keys, blobs |-> blobs],
              printed |-> printed]
    ELSE LET x == Head(objects)
         IN  ledger_data_from(Tail(objects), Append(keys, x.index), Append(blobs, x),
                 IF x.index.len # KeyLen THEN Append(printed, "bad key") ELSE printed)

ledger_data(binary, objects) ==
    IF binary THEN ledger_data_from(objects, <<>>, <<>>, <<>>)
    ELSE [value |-> [returned |-> "None", keys |-> <<>>, blobs |-> <<>>],
          printed |-> <<>>]

\* ledger_data_full's loop over the objects of one page: state[x["index"]] is
\* set for every object that passes the type filter (typ "None": no filter).
\* The loop over a page with no test of the type: every object enters the state.
RECURSIVE state_update_all(_, _, _)
state_update_all(state, objects, typ) ==
    IF objects = <<>> THEN state
    ELSE LET x == Head(objects)
             at == {i \in DOMAIN state : state[i][1] = x.index}
             next == IF at = {} THEN Append(state, <<x.index, x>>)
                     ELSE [state EXCEPT ![CHOOSE i \in at : TRUE] = <<x.index, x>>]
         IN  state_update_all(next, Tail(objects), typ)

RECURSIVE state_update(_, _, _)
state_update(state, objects, typ) ==
    IF objects = <<>> THEN state
    ELSE LET x == Head(objects)
             keep == typ = "None" \/ x.type = typ
             at == {i \in DOMAIN state : state[i][1] = x.index}
             next == IF ~keep THEN state
                     ELSE IF at = {} THEN Append(state, <<x.index, x>>)
                     ELSE [state EXCEPT ![CHOOSE i \in at : TRUE] = <<x.index, x>>]
         IN  state_update(next, Tail(objects), typ)

InitLedgerData ==
    /\ CrawlIdle /\ RestIdle
    /\ op \in {"ledger_data", "ledger_data_full"}
    /\ argA \in SeqUpTo(ObjectRecords, MaxObjects)
    /\ argB \in IF op = "ledger_data" THEN {"binary", "json"}
                ELSE {"None"} \cup EntryTypes
    /\ baseA = argA /\ baseB = argB
    /\ cpc = "call" /\ verdict = "none" /\ report = NoReport

\* ledger_data on a response holding the objects argA; argB is its binary flag.
ApplyLedgerData ==
    /\ cpc = "call" /\ op = "ledger_data"
    /\ LET r == ledger_data(argB = "binary", argA)
       IN  /\ verdict' = r.value
           /\ report' = [printed |-> r.printed, checked |-> Len(argA)]
    /\ cpc' = "returned"
    /\ UNCHANGED <<crawlVars, restVars, op, argA, argB, baseA, baseB>>

\* ledger_data_full on one last page holding the objects argA; argB is typ.
ApplyLedgerDataFull ==
    /\ cpc = "call" /\ op = "ledger_data_full"
    /\ verdict' = [returned |-> "state", state |-> state_update(<<>>, argA, argB)]
    /\ report' = [printed |-> <<>>, checked |-> Len(argA)]
    /\ cpc' = "returned"
    /\ UNCHANGED <<crawlVars, restVars, op, argA, argB, baseA, baseB>>

NextLedgerData == ApplyLedgerData \/ ApplyLedgerDataFull

SpecLedgerData == InitLedgerData /\ [][NextLedgerData]_vars

\* A key of exactly 64 hexadecimal characters.
WellFormed(k) == k.len = KeyLen /\ k.hex

\* The keys a returned value holds.
ReturnedKeys ==
    IF op = "ledger_data" THEN ToSet(verdict.keys)
    ELSE {verdict.state[i][1] : i \in DOMAIN verdict.state}

\* C11: no key that is not exactly 64 hexadecimal characters is among the keys
\* ledger_data or ledger_data_full returns, and every such key of the response
\* is reported.
C11_BadKeyRejected ==
    (cpc = "returned" /\ op \in {"ledger_data", "ledger_data_full"})
        => /\ \A k \in ReturnedKeys : WellFormed(k)
           /\ Len(report.printed)
                 = Cardinality({i \in DOMAIN argA : ~WellFormed(argA[i].index)})

\* =================================================== verifySubscribe
MaxLedger == 3
MaxStreamTx == 1
MaxQueue == 2

Sides == {1, 2}

\* The ledger a server has open when the subscription starts.
FirstLedgers == {1, 2}

\* The transactions a server may stream: same hash, different content.
StreamTxs == {e \in Events : e.hash = 1}

Tx(e, l) == [type |-> "transaction", hash |-> e.hash, body |-> e.body, ledger_index |-> l]
Closed(l) == [type |-> "ledgerClosed", ledger_index |-> l]

\* The result of a subscribe request: any of its fields may be absent.
AckFields == {"validated_ledgers", "ledger_hash"}
AckValues == {"a", "b"}
Acks == UNION {[D -> AckValues] : D \in SUBSET AckFields}

Present(r1, r2) == "validated_ledgers" \in DOMAIN r1 /\ "validated_ledgers" \in DOMAIN r2

\* res["validated_ledgers"] = ""
Blanked(r) == [k \in DOMAIN r |-> IF k = "validated_ledgers" THEN "" ELSE r[k]]

\* The first assert alone.
AckAssertsPresence(r1, r2) == IF Present(r1, r2) THEN "ok" ELSE "AssertionError"

\* The two asserts on the acknowledgements.
AckAsserts(r1, r2) ==
    IF ~Present(r1, r2) THEN "AssertionError"
    ELSE IF Blanked(r1) = Blanked(r2) THEN "ok"
    ELSE "AssertionError"

\* The acknowledgements as sent: missing a validated_ledgers, differing
\* elsewhere, differing in validated_ledgers only, or the same.
AckClass(a1, a2) ==
    IF ~Present(a1, a2) THEN "missing"
    ELSE IF DOMAIN a1 # DOMAIN a2
            \/ \E k \in DOMAIN a1 \ {"validated_ledgers"} : a1[k] # a2[k] THEN "unequal"
    ELSE IF a1 = a2 THEN "same"
    ELSE "blanked"

\* One turn of getAllTxns' loop that returns whatever the message is.
getAllTxns_eager(l, msg) ==
    [txns |-> IF msg.type = "transaction" THEN Append(l, msg) ELSE l, returned |-> TRUE]

\* One turn of getAllTxns' loop on the message received.
getAllTxns_on(l, msg) ==
    IF msg.type = "transaction" THEN [txns |-> Append(l, msg), returned |-> FALSE]
    ELSE IF msg.type = "ledgerClosed" THEN [txns |-> l, returned |-> TRUE]
    ELSE [txns |-> l, returned |-> FALSE]

\* getAllTxns going on with the list of the call before.
getAllTxns_kept == txns

\* txns = []: each call of getAllTxns starts a list of its own.
getAllTxns_new == <<>>

\* The steady loop going on whatever compareObjects returned.
AfterCompareOn(v) == "get1"

\* if not compareObjects(...): assert(False); a NameError leaves the loop too.
AfterCompare(v) == IF v = "True" THEN "get1" ELSE "aborted"

InitStream ==
    /\ CrawlIdle /\ CmpIdle /\ LoadIdle
    /\ spc = "subscribe"
    /\ ws \in [Sides -> {[q |-> <<>>, down |-> FALSE, ledger |-> l, sent |-> 0] :
                            l \in FirstLedgers}]
    /\ res1 = NoMsg /\ res2 = NoMsg /\ txns = <<>>
    /\ clioTxns = <<>> /\ ripdTxns = <<>> /\ sverdict = "none" /\ ackIn = "none"
    /\ readAny = FALSE

\* The subscribe requests, their acknowledgements and the two asserts.
Subscribe ==
    /\ spc = "subscribe"
    /\ \E a1 \in Acks, a2 \in Acks :
        /\ res1' = IF Present(a1, a2) THEN Blanked(a1) ELSE a1
        /\ res2' = IF Present(a1, a2) THEN Blanked(a2) ELSE a2
        /\ ackIn' = AckClass(a1, a2)
        /\ spc' = IF AckAsserts(a1, a2) = "ok" THEN "first1" ELSE "aborted"
    /\ UNCHANGED <<crawlVars, cmpVars, loadVars, ws, txns, clioTxns, ripdTxns,
                   sverdict, readAny>>

Pop(s) == [ws EXCEPT ![s].q = Tail(@)]

\* The first loop: ws1 is read up to its first ledgerClosed.
RecvFirstClio ==
    /\ spc = "first1" /\ ws[1].q # <<>>
    /\ res1' = Head(ws[1].q)
    /\ ws' = Pop(1)
    /\ readAny' = TRUE
    /\ spc' = IF res1'.type # "ledgerClosed" THEN "first1" ELSE "first2"
    /\ UNCHANGED <<crawlVars, cmpVars, loadVars, res2, txns, clioTxns, ripdTxns,
                   sverdict, ackIn>>

\* The second loop: ws2 is read up to its first ledgerClosed.
RecvFirstRipd ==
    /\ spc = "first2" /\ ws[2].q # <<>>
    /\ res2' = Head(ws[2].q)
    /\ ws' = Pop(2)
    /\ readAny' = TRUE
    /\ spc' = IF res2'.type # "ledgerClosed" THEN "first2" ELSE "get1"
    /\ UNCHANGED <<crawlVars, cmpVars, loadVars, res1, txns, clioTxns, ripdTxns,
                   sverdict, ackIn>>

\* clioTxns = await getAllTxns(ws1), one message.
RecvClio ==
    /\ spc = "get1" /\ ws[1].q # <<>>
    /\ LET r == getAllTxns_on(txns, Head(ws[1].q))
       IN  /\ res1' = Head(ws[1].q)
           /\ ws' = Pop(1)
           /\ readAny' = TRUE
           /\ sverdict' = "none"
           /\ IF r.returned
                THEN clioTxns' = r.txns /\ txns' = getAllTxns_new /\ spc' = "get2"
                ELSE txns' = r.txns /\ UNCHANGED <<clioTxns, spc>>
    /\ UNCHANGED <<crawlVars, cmpVars, loadVars, res2, ripdTxns, ackIn>>

\* ripdTxns = await getAllTxns(ws2), one message; when the list is returned
\* compareObjects is applied to the two lists, which it sorts in place.
RecvRipd ==
    /\ spc = "get2" /\ ws[2].q # <<>>
    /\ LET r == getAllTxns_on(txns, Head(ws[2].q))
       IN  /\ res2' = Head(ws[2].q)
           /\ ws' = Pop(2)
           /\ readAny' = TRUE
           /\ IF r.returned
                THEN /\ sverdict' = compareObjects(clioTxns, r.txns)
                     /\ clioTxns' = SortByHash(clioTxns)
                     /\ ripdTxns' = SortByHash(r.txns)
                     /\ txns' = getAllTxns_new
                     /\ spc' = AfterCompare(sverdict')
                ELSE txns' = r.txns /\ UNCHANGED <<clioTxns, ripdTxns, sverdict, spc>>
    /\ UNCHANGED <<crawlVars, cmpVars, loadVars, res1, ackIn>>

\* The connection verifySubscribe is reading.
Waiting(s) ==
    \/ s = 1 /\ spc \in {"first1", "get1"}
    \/ s = 2 /\ spc \in {"first2", "get2"}

\* recv on a connection the peer closed, nothing left to deliver: the
\* exception leaves getAllTxns and verifySubscribe (the except clause names an
\* attribute websockets.exceptions does not have).
RecvRaises ==
    /\ \E s \in Sides : Waiting(s) /\ ws[s].q = <<>> /\ ws[s].down
    /\ spc' = "failed"
    /\ UNCHANGED <<crawlVars, cmpVars, loadVars, ws, res1, res2, txns, clioTxns,
                   ripdTxns, sverdict, ackIn, readAny>>

\* The connections are open from the subscription to the end of the run.
Connected == spc \in {"first1", "first2", "get1", "get2"}

CanSend(s) ==
    /\ Connected /\ ~ws[s].down
    /\ Len(ws[s].q) < MaxQueue /\ ws[s].ledger <= MaxLedger

\* A server streams a transaction of its open ledger.
ServerTx ==
    /\ \E s \in Sides : \E e \in StreamTxs :
        /\ CanSend(s) /\ ws[s].sent < MaxStreamTx
        /\ ws' = [ws EXCEPT ![s].q = Append(@, Tx(e, ws[s].ledger)),
                            ![s].sent = @ + 1]
    /\ UNCHANGED <<crawlVars, cmpVars, loadVars, spc, res1, res2, txns, clioTxns,
                   ripdTxns, sverdict, ackIn, readAny>>

\* A server closes its open ledger and opens the next.
ServerClose ==
    /\ \E s \in Sides :
        /\ CanSend(s)
        /\ ws' = [ws EXCEPT ![s].q = Append(@, Closed(ws[s].ledger)),
                            ![s].ledger = @ + 1, ![s].sent = 0]
    /\ UNCHANGED <<crawlVars, cmpVars, loadVars, spc, res1, res2, txns, clioTxns,
                   ripdTxns, sverdict, ackIn, readAny>>

\* A server closes its connection.
ServerDrop ==
    /\ \E s \in Sides :
        /\ Connected /\ ~ws[s].down
        /\ ws' = [ws EXCEPT ![s].down = TRUE]
    /\ UNCHANGED <<crawlVars, cmpVars, loadVars, spc, res1, res2, txns, clioTxns,
                   ripdTxns, sverdict, ackIn, readAny>>

NextStream ==
    \/ Subscribe \/ RecvFirstClio \/ RecvFirstRipd \/ RecvClio \/ RecvRipd
    \/ RecvRaises \/ ServerTx \/ ServerClose \/ ServerDrop

SpecStream == InitStream /\ [][NextStream]_vars

\* C12: whenever compareObjects has just been applied, the boundary that
\* closed clio's list and the boundary that closed rippled's list are for the
\* same ledger.
C12_SameLedgerPairs ==
    sverdict # "none" => res1.ledger_index = res2.ledger_index

\* C13: nothing is read from the streams and no batch is compared unless both
\* acknowledgements held validated_ledgers and were equal apart from it; with
\* any other acknowledgements the run has aborted with nothing read.
C13_AcksGate ==
    /\ (readAny \/ sverdict # "none" \/ spc \notin {"subscribe", "aborted"})
            => ackIn \in {"same", "blanked"}
    /\ ackIn \in {"missing", "unequal"}
            => (spc = "aborted" /\ ~readAny /\ sverdict = "none")

\* C13 witness: acknowledgements differing in validated_ledgers only were
\* accepted and a batch was compared.
C13_Witness == ackIn = "blanked" /\ sverdict = "True" /\ clioTxns # <<>>

\* The side whose list of the current round is already returned.
BoundarySeen(s) == s = 1 /\ spc = "get2"

\* C14: in the steady state a side with messages to deliver and no boundary
\* yet in this round is being read, whatever the other side is doing.
C14_IndependentLoops ==
    \A s \in Sides :
        (spc \in {"get1", "get2"} /\ ws[s].q # <<>> /\ ~BoundarySeen(s)) => Waiting(s)

\* C15: once compareObjects has not returned True the run is aborted: nothing
\* more is received and nothing more is compared.
C15_MismatchAborts ==
    /\ [](sverdict \in {"False", "NameError"} => spc = "aborted")
    /\ [][(sverdict \in {"False", "NameError"})
            => (UNCHANGED <<spc, ws, res1, res2, txns, clioTxns, ripdTxns, sverdict>>)]_vars

\* C15 witness: the lists mismatched, the run is aborted and messages clio
\* delivered stay unread.
C15_Witness == sverdict = "False" /\ spc = "aborted" /\ ws[1].q # <<>>

\* C16: the lists handed to compareObjects were each closed by a ledgerClosed
\* message, and a recv that raises ends the run with nothing compared.
C16_NoPartialBatch ==
    /\ [](sverdict # "none" => (res1.type = "ledgerClosed" /\ res2.type = "ledgerClosed"))
    /\ [](spc = "failed" => \E s \in Sides : ws[s].q = <<>> /\ ws[s].down)
    /\ [][(spc' = "failed") => (UNCHANGED <<clioTxns, ripdTxns, sverdict>>)]_vars

\* C16 witness: the connection closed while transactions of an open batch
\* were held, and the run failed without comparing them.
C16_Witness == spc = "failed" /\ txns # <<>> /\ sverdict = "none"

\* The transactions of the list all belong to the ledger the boundary closed.
BatchOf(l, boundary) == \A i \in DOMAIN l : l[i].ledger_index = boundary.ledger_index

\* The message verifySubscribe is about to receive from side s.
Incoming(s) == Head(ws[s].q)

\* C31: a list handed to compareObjects holds exactly the transactions its
\* side delivered since that side's previous ledgerClosed: every transaction
\* received joins the list under construction, the list is handed over whole
\* at the boundary and the next one starts empty, so the transactions of a
\* handed list all belong to the ledger its boundary closed.
C31_BatchExact ==
    /\ [](spc = "get2" => BatchOf(clioTxns, res1))
    /\ [](sverdict # "none"
            => (txns = <<>> /\ BatchOf(clioTxns, res1) /\ BatchOf(ripdTxns, res2)))
    /\ [][(spc = "get1" /\ ws[1].q # <<>> /\ ws'[1].q = Tail(ws[1].q))
            => IF Incoming(1).type = "transaction"
                 THEN txns' = Append(txns, Incoming(1))
                 ELSE clioTxns' = txns /\ txns' = <<>>]_vars
    /\ [][(spc = "get2" /\ ws[2].q # <<>> /\ ws'[2].q = Tail(ws[2].q))
            => IF Incoming(2).type = "transaction"
                 THEN txns' = Append(txns, Incoming(2))
                 ELSE ToSet(ripdTxns') = ToSet(txns) /\ txns' = <<>>]_vars

\* C31 witness: clio's list was handed over with a transaction in it and
\* rippled's list, started empty, holds a transaction of rippled's own.
C31_Witness ==
    /\ spc = "get2" /\ clioTxns # <<>> /\ Len(txns) = 1
    /\ res2.type = "transaction" /\ txns[1] = res2

\* The steps of verifySubscribe itself: an await on recv returns once a
\* message is there or the connection is closed, and the event loop runs no
\* other task. The servers send when they choose to.
RecvStep ==
    \/ Subscribe \/ RecvFirstClio \/ RecvFirstRipd \/ RecvClio \/ RecvRipd
    \/ RecvRaises

SpecStreamFair == SpecStream /\ WF_vars(RecvStep)

\* C33: a wait for rippled's ledgerClosed while clio has messages pending
\* ends: the boundary arrives and the batch is compared, or the batch is
\* abandoned with an error.
C33_BatchTimeout ==
    (spc = "get2" /\ ws[1].q # <<>>) ~> (spc \in {"get1", "aborted", "failed"})

\* =================================================== load runs: txs, ledgers
MaxRunners == 2
MaxLoadCalls == 2
MaxTime == 2

\* The round-trip time above which a call is reported, 0.1 s, in the unit of
\* now (100 ms).
SlowThreshold == 1

\* A call flagged from the threshold on.
SlowAtLeast(rtt) == rtt >= SlowThreshold

\* if (end - start) > 0.1
Slow(rtt) == rtt > SlowThreshold

\* A worker whose connection closed: txs names an exception class that does
\* not exist in its except clause, so the handler raises AttributeError and
\* the task ends with it; ledgers catches ConnectionClosedError, prints and
\* returns.
WorkerClosed(a) == IF a = "ledgers" THEN "returned" ELSE "raised"

\* runner() through its awaits when the first task alone has returned.
AwaitedFirst(ts) == ts[1].pc = "returned"

\* for t in tasks: await t, every task having returned.
Awaited(ts) == \A w \in DOMAIN ts : ts[w].pc = "returned"

NewTask == [pc |-> "send", done |-> 0, start |-> 0, end |-> 0, took |-> "none",
            closed |-> FALSE]

InitLoad ==
    /\ CrawlIdle /\ CmpIdle /\ StreamIdle
    /\ action \in {"txs", "ledgers"}
    /\ numRunners \in 1..MaxRunners
    /\ maxCalls \in 1..MaxLoadCalls
    /\ now = 0 /\ rpc = "init" /\ start = 0 /\ end = 0
    /\ tasks = <<>> /\ summary = NoSummary

\* start is taken, asyncio.run(runner()) creates the tasks.
Run ==
    /\ rpc = "init"
    /\ start' = now
    /\ tasks' = [w \in 1..numRunners |-> NewTask]
    /\ rpc' = "running"
    /\ UNCHANGED <<crawlVars, cmpVars, streamVars, action, numRunners, maxCalls, now,
                   end, summary>>

\* A worker takes its start time and sends its request.
WorkerSend ==
    /\ rpc = "running"
    /\ \E w \in DOMAIN tasks :
        /\ tasks[w].pc = "send"
        /\ tasks' = [tasks EXCEPT ![w].pc = "recv", ![w].start = now,
                                   ![w].took = "none"]
    /\ UNCHANGED <<crawlVars, cmpVars, streamVars, action, numRunners, maxCalls, now,
                   rpc, start, end, summary>>

\* A worker receives its response, takes its end time and tests the round
\* trip; after its last call it returns.
WorkerRecv ==
    /\ rpc = "running"
    /\ \E w \in DOMAIN tasks :
        /\ tasks[w].pc = "recv"
        /\ tasks' = [tasks EXCEPT
                ![w].end = now,
                ![w].took = IF Slow(now - tasks[w].start) THEN "slow" ELSE "ok",
                ![w].done = @ + 1,
                ![w].pc = IF tasks[w].done + 1 = maxCalls THEN "returned" ELSE "send"]
    /\ UNCHANGED <<crawlVars, cmpVars, streamVars, action, numRunners, maxCalls, now,
                   rpc, start, end, summary>>

\* The connection of a worker closes under its send or its recv.
WorkerFails ==
    /\ rpc = "running"
    /\ \E w \in DOMAIN tasks :
        /\ tasks[w].pc \in {"send", "recv"}
        /\ tasks' = [tasks EXCEPT ![w].pc = WorkerClosed(action), ![w].closed = TRUE]
    /\ UNCHANGED <<crawlVars, cmpVars, streamVars, action, numRunners, maxCalls, now,
                   rpc, start, end, summary>>

\* Time passes.
Tick ==
    /\ rpc \in {"init", "running"} /\ now < MaxTime
    /\ now' = now + 1
    /\ UNCHANGED <<crawlVars, cmpVars, streamVars, action, numRunners, maxCalls, rpc,
                   start, end, tasks, summary>>

\* asyncio.run returns: end is taken and the summary printed.
Report ==
    /\ rpc = "running" /\ Awaited(tasks)
    /\ end' = now
    /\ summary' = [num |-> numRunners * maxCalls, elapsed |-> end' - start,
                   printed |-> TRUE]
    /\ rpc' = "reported"
    /\ UNCHANGED <<crawlVars, cmpVars, streamVars, action, numRunners, maxCalls, now,
                   start, tasks>>

\* The runner awaits a task that ended with an exception: the exception
\* leaves asyncio.run, which cancels the tasks still running, and the program.
Crash ==
    /\ rpc = "running"
    /\ \E w \in DOMAIN tasks :
        /\ tasks[w].pc = "raised"
        /\ \A v \in 1..(w - 1) : tasks[v].pc = "returned"
    /\ tasks' = [w \in DOMAIN tasks |->
                    IF tasks[w].pc \in {"send", "recv"}
                        THEN [tasks[w] EXCEPT !.pc = "cancelled"] ELSE tasks[w]]
    /\ rpc' = "raised"
    /\ UNCHANGED <<crawlVars, cmpVars, streamVars, action, numRunners, maxCalls, now,
                   start, end, summary>>

NextLoad == Run \/ WorkerSend \/ WorkerRecv \/ WorkerFails \/ Tick \/ Report \/ Crash

SpecLoad == InitLoad /\ [][NextLoad]_vars

\* C17: the summary counts numRunners * numCalls calls over end - start, start
\* taken before any worker's first call and end after every worker's last, no
\* worker being in a call when end is taken.
C17_ElapsedCoversAllWorkers ==
    rpc = "reported" =>
        /\ summary.num = numRunners * maxCalls
        /\ summary.elapsed = end - start
        /\ \A w \in DOMAIN tasks :
            /\ tasks[w].pc \notin {"send", "recv"}
            /\ tasks[w].done > 0 => (start <= tasks[w].start /\ tasks[w].end <= end)

\* C17 witness: two workers finished at different times and the summary was
\* printed with the later time.
C17_Witness ==
    /\ rpc = "reported" /\ numRunners = MaxRunners
    /\ tasks[1].done = maxCalls /\ tasks[2].done = maxCalls
    /\ tasks[1].end < tasks[2].end /\ tasks[2].end = end /\ 0 < start

\* C18: after the connection of a worker failed the run goes on: it is not
\* ended by an exception and no other worker is cancelled.
C18_FailureIsolated ==
    (\E w \in DOMAIN tasks : tasks[w].closed)
        => (rpc \in {"running", "reported"}
            /\ \A w \in DOMAIN tasks : tasks[w].pc # "cancelled")

RECURSIVE Completed(_)
Completed(ts) == IF ts = <<>> THEN 0 ELSE Head(ts).done + Completed(Tail(ts))

\* C19: the call count of the summary is the number of calls that completed.
C19_OnlyCompletedCounted ==
    rpc = "reported" => summary.num = Completed(tasks)

\* C20: a call a worker has completed was flagged exactly when its round trip
\* took more than 100 ms.
C20_SlowFlagExact ==
    \A w \in DOMAIN tasks :
        tasks[w].took # "none"
            => (tasks[w].took = "slow" <=> tasks[w].end - tasks[w].start > SlowThreshold)

\* C20 witness: one call took exactly 100 ms and was not flagged, another
\* took longer and was.
C20_Witness ==
    /\ numRunners = MaxRunners
    /\ tasks # <<>>
    /\ tasks[1].took = "ok" /\ tasks[1].end - tasks[1].start = SlowThreshold
    /\ tasks[2].took = "slow"

\* =================================================== run: the exit status
\* What a fetch gave: a response, or None after a closed connection that
\* account_info caught and printed.
Fetches == {"ok", "closed"}

\* What ends verifySubscribe: assert(False) after a mismatch, or a recv that
\* raised.
StreamEnds == {"mismatch", "closed"}

\* compareAccountInfo(aldous, p2p): a None argument cannot be subscripted;
\* otherwise isSubset(p2p, aldous) decides which line is printed, and None is
\* returned either way.
compareAccountInfo(r1, r2, aldous, p2p) ==
    IF r2 = "closed" \/ r1 = "closed" THEN "TypeError"
    ELSE IF isSubset(p2p, aldous).value THEN "Responses match!!"
    ELSE "Response mismatch"

\* The status the interpreter exits with: 1 after an exception nothing
\* caught, 0 when run(args) returns.
ExitStatus(outcome) ==
    IF outcome \in {"TypeError", "AssertionError", "AttributeError"} THEN 1 ELSE 0

InitRun ==
    /\ CrawlIdle /\ RestIdle
    /\ op \in {"account_info", "verify_subscribe"}
    /\ IF op = "account_info"
         THEN /\ argA \in Lookups
              /\ argB \in Dicts
              /\ baseA \in [verify : BOOLEAN, res1 : Fetches, res2 : Fetches]
              /\ baseB = "none"
         ELSE /\ argA = <<>> /\ argB = <<>>
              /\ baseA = [verify |-> TRUE, res1 |-> "ok", res2 |-> "ok"]
              /\ baseB \in StreamEnds
    /\ cpc = "call" /\ verdict = [outcome |-> "none", status |-> 0]
    /\ report = NoReport

\* run(args) with args.action == "account_info", to the exit of the program.
RunAccountInfo ==
    /\ cpc = "call" /\ op = "account_info"
    /\ LET outcome == IF baseA.verify
                        THEN compareAccountInfo(baseA.res1, baseA.res2, argA, argB)
                        ELSE "none"
       IN  verdict' = [outcome |-> outcome, status |-> ExitStatus(outcome)]
    /\ cpc' = "exited"
    /\ UNCHANGED <<crawlVars, restVars, op, argA, argB, baseA, baseB, report>>

\* run(args) with args.action == "verify_subscribe", to the exit of the
\* program: the exception that ends verifySubscribe leaves run_until_complete.
RunVerifySubscribe ==
    /\ cpc = "call" /\ op = "verify_subscribe"
    /\ LET outcome == IF baseB = "mismatch" THEN "AssertionError" ELSE "AttributeError"
       IN  verdict' = [outcome |-> outcome, status |-> ExitStatus(outcome)]
    /\ cpc' = "exited"
    /\ UNCHANGED <<crawlVars, restVars, op, argA, argB, baseA, baseB, report>>

NextRun == RunAccountInfo \/ RunVerifySubscribe

SpecRun == InitRun /\ [][NextRun]_vars

\* A compare was made and the two results do not match.
MismatchFound ==
    \/ op = "verify_subscribe" /\ baseB = "mismatch"
    \/ /\ op = "account_info" /\ baseA.verify
       /\ baseA.res1 = "ok" /\ baseA.res2 = "ok"
       /\ ~isSubset(argB, argA).value

\* A connection closed under a fetch the run made.
TransportError ==
    \/ op = "verify_subscribe" /\ baseB = "closed"
    \/ /\ op = "account_info"
       /\ (baseA.res1 = "closed" \/ (baseA.verify /\ baseA.res2 = "closed"))

\* C21: the program exits with a non-zero status exactly when a verification
\* compare found a mismatch or a transport error ended the operation.
C21_ExitStatus ==
    cpc = "exited" => ((verdict.status # 0) <=> (MismatchFound \/ TransportError))

\* =================================================== compare_book_offers
MaxOffers == 2

OfferIndexes == {1, 2}

\* The candidate's offers as they are iterated, the reference's as they are
\* looked up: an index and one more field.
AldousOffers == {<<<<"index", i>>, <<"a", v>>>> : i \in OfferIndexes, v \in Vals}
P2pOffers == {[k \in {"index", "a"} |-> IF k = "index" THEN i ELSE v] :
                i \in OfferIndexes, v \in Vals}

\* y["index"] on an offer kept as its (key, value) pairs.
OfferIndex(y) == y[CHOOSE i \in DOMAIN y : y[i][1] = "index"][2]

\* The inner loop of compare_book_offers: x against the offers of aldous from
\* the j-th on.
RECURSIVE match_offer(_, _, _, _)
match_offer(aldous, x, j, matched) ==
    IF j > Len(aldous) THEN IF matched THEN "matched" ELSE "offer not found"
    ELSE IF OfferIndex(aldous[j]) = x["index"]
        THEN IF compare_offer(aldous[j], x).verdict # "True" THEN "Mismatched offer"
             ELSE match_offer(aldous, x, j + 1, TRUE)
    ELSE match_offer(aldous, x, j + 1, matched)

\* The outer loop, from the i-th offer of p2p on.
RECURSIVE compare_book_offers_from(_, _, _)
compare_book_offers_from(aldous, p2p, i) ==
    IF i > Len(p2p) THEN [verdict |-> "True", printed |-> <<"offers match!">>]
    ELSE LET m == match_offer(aldous, p2p[i], 1, FALSE)
         IN  IF m # "matched" THEN [verdict |-> "False", printed |-> <<m>>]
             ELSE compare_book_offers_from(aldous, p2p, i + 1)

compare_book_offers(aldous, p2p) == compare_book_offers_from(aldous, p2p, 1)

InitBookOffers ==
    /\ CrawlIdle /\ RestIdle
    /\ op = "compare_book_offers"
    /\ argA \in SeqUpTo(AldousOffers, MaxOffers)
    /\ argB \in SeqUpTo(P2pOffers, MaxOffers)
    /\ baseA = argA /\ baseB = argB
    /\ cpc = "call" /\ verdict = "none" /\ report = NoReport

\* print(compare_book_offers(res,res2))
ApplyCompareBookOffers ==
    /\ cpc = "call" /\ op = "compare_book_offers"
    /\ LET r == compare_book_offers(argA, argB)
       IN  /\ verdict' = r.verdict
           /\ report' = [printed |-> r.printed, checked |-> Len(argB)]
    /\ cpc' = "returned"
    /\ UNCHANGED <<crawlVars, restVars, op, argA, argB, baseA, baseB>>

NextBookOffers == ApplyCompareBookOffers

SpecBookOffers == InitBookOffers /\ [][NextBookOffers]_vars

LeftIndexes == {OfferIndex(argA[i]) : i \in DOMAIN argA}
RightIndexes == {argB[i]["index"] : i \in DOMAIN argB}

\* C22: when an offer index is in one of the two results only, whichever it
\* is, compare_book_offers returns False.
C22_OneSidedDetected ==
    (cpc = "returned" /\ op = "compare_book_offers" /\ LeftIndexes # RightIndexes)
        => verdict = "False"

\* =================================================== comparisons and their inputs
\* C23: a comparison leaves its two arguments as they were: the same items in
\* the same order after the call as before it.
C23_InputsUnchanged ==
    [][(cpc = "call" /\ cpc' = "returned") => (argA' = argA /\ argB' = argB)]_vars

\* =================================================== crawls: tokens and termination
\* C25: after a page that carries no continuation token the crawl has
\* returned its accumulated items, that page's among them, and sends nothing
\* more.
C25_DoneWithoutToken ==
    /\ []((res.kind = "page" /\ res.cursor = None /\ res.marker = None)
            => /\ pc = "done" /\ ret = "results"
               /\ \A i \in DOMAIN res.items : res.items[i] \in ToSet(results))
    /\ [][(pc = "done") => (UNCHANGED <<pc, req, numCalls, results, ret>>)]_vars

\* C25 witness: the second page of a source carried no token and the crawl
\* returned everything.
C25_Witness ==
    /\ pc = "done" /\ ret = "results" /\ faults = {}
    /\ numCalls = 2 /\ res.kind = "page" /\ Continuation(res) = None
    /\ results = Source /\ srcK > srcP

\* The tokens a request carries.
Carried(rq) == {rq.cursor, rq.marker} \ {None}

\* C26: the first request carries no token; a request that follows a page
\* carries the token of that page and no other; a request that follows an
\* error response is the request sent before it.
C26_FreshToken ==
    /\ []((pc = "recv" /\ numCalls = 1) => Carried(req) = {})
    /\ []((pc = "recv" /\ numCalls > 1 /\ ~res.error)
            => Carried(req) = {Continuation(res)})
    /\ [][(pc = "send" /\ pc' = "recv" /\ res.error) => (req' = req)]_vars

\* C26 witness: the third request of a crawl carries the token of the second
\* page.
C26_Witness ==
    /\ pc = "recv" /\ numCalls = 3 /\ faults = {} /\ srcP = 1
    /\ res.asked = 1 /\ Carried(req) = {2}

\* C27: a response with an error field leaves ledger_data_full's state and
\* marker as they were, and the request that follows it is the one sent
\* before it.
C27_ErrorLeavesCrawl ==
    /\ [][(fn = "ledger_data_full" /\ pc = "recv" /\ res'.error)
            => (results' = results /\ marker' = marker /\ cursor' = cursor)]_vars
    /\ [][(fn = "ledger_data_full" /\ TopError(res) /\ pc = "send" /\ pc' = "recv")
            => (req' = req /\ req'.marker = marker)]_vars

\* C27 witness: an error response arrived after the first page and the same
\* request is out again, the state still holding that page.
C27_Witness ==
    /\ fn = "ledger_data_full" /\ pc = "recv" /\ TopError(res)
    /\ results # <<>> /\ req.marker # None /\ numCalls = 3

\* C28: with a count ceiling, ledger_data_full has returned once its state
\* holds that many objects.
C28_CeilingStops ==
    (fn = "ledger_data_full" /\ count # -1 /\ Len(results) >= count) => pc = "done"

\* =================================================== ledger_data_full: type filter
MaxPages == 2

\* Objects with well-formed keys, of either type.
TypedObjects == {x \in ObjectRecords : WellFormed(x.index)}

InitTyped ==
    /\ CrawlIdle /\ RestIdle
    /\ op = "ledger_data_full"
    /\ argA = <<>>
    /\ argB \in [typ : {"None"} \cup EntryTypes, count : {-1} \cup (1..MaxObjects)]
    /\ baseA = {} /\ baseB = argB
    /\ cpc = "call"
    /\ verdict = [returned |-> "pending", state |-> <<>>]
    /\ report = NoReport

\* One round of ledger_data_full on the objects of a page: the objects that
\* pass the type test enter the state, then the count ceiling and the
\* continuation token decide whether the crawl returns.
FetchObjects ==
    /\ cpc = "call" /\ op = "ledger_data_full" /\ report.checked < MaxPages
    /\ \E objects \in SeqUpTo(TypedObjects, MaxObjects), more \in BOOLEAN :
        LET state == state_update(verdict.state, objects, argB.typ)
            stop == (argB.count # -1 /\ Len(state) > argB.count) \/ ~more
        IN  /\ argA' = objects
            /\ baseA' = baseA \cup ToSet(objects)
            /\ verdict' = [returned |-> IF stop THEN "state" ELSE "pending",
                           state |-> state]
            /\ cpc' = IF stop THEN "returned" ELSE "call"
    /\ report' = [report EXCEPT !.checked = @ + 1]
    /\ UNCHANGED <<crawlVars, restVars, op, argB, baseB>>

NextTyped == FetchObjects

SpecTyped == InitTyped /\ [][NextTyped]_vars

\* The object passes the type filter of the crawl.
Matches(x) == argB.typ = "None" \/ x.type = argB.typ

\* The keys of the objects served so far that pass the filter.
MatchingKeys == {x.index : x \in {y \in baseA : Matches(y)}}

\* C29: at every point of the crawl each entry of the state passes the type
\* filter, the state holds one entry per matching key served, and the crawl
\* is still going under a count ceiling only while that number is within it.
C29_FilterHolds ==
    /\ \A i \in DOMAIN verdict.state : Matches(verdict.state[i][2])
    /\ Len(verdict.state) = Cardinality(MatchingKeys)
    /\ (cpc = "call" /\ argB.count # -1) => Cardinality(MatchingKeys) <= argB.count

\* C29 witness: under a filter and a ceiling of 1 the crawl is still going
\* after two objects were served, one of them of another type and left out.
C29_Witness ==
    /\ cpc = "call" /\ argB.typ # "None" /\ argB.count = 1
    /\ Cardinality(baseA) = 2 /\ Len(verdict.state) = 1
    /\ \E x \in baseA : ~Matches(x)

\* =================================================== compareTx
\* p2p["meta"]: a hex blob, or the metadata expanded into a mapping.
MetaForms == {"blob", "dict"}

\* The candidate's tx response; asked with binary true it carries blobs.
AldousTx == [transaction : Blobs, metadata : Metas, ledger_sequence : Ledgers]
\* The reference's tx response under "result".
P2pTx == [tx : Blobs, meta : [form : MetaForms, val : Metas], ledger_index : Ledgers]

\* aldous["metadata"] != p2p["meta"]: a string never equals a mapping.
MetaDiffers(aldous, p2p) == ~(p2p.meta.form = "blob" /\ p2p.meta.val = aldous.metadata)

\* compareTx with the metadata test applied whatever the form of p2p["meta"].
compareTx_strict(aldous, p2p) ==
    IF aldous.transaction # p2p.tx
        THEN [returned |-> "False", printed |-> <<"transaction mismatch">>]
    ELSE IF MetaDiffers(aldous, p2p)
        THEN [returned |-> "False", printed |-> <<"metadata mismatch">>]
    ELSE IF aldous.ledger_sequence # p2p.ledger_index
        THEN [returned |-> "True",
              printed |-> <<"ledger sequence mismatch", "responses match!!">>]
    ELSE [returned |-> "True", printed |-> <<"responses match!!">>]

\* compareTx: what it returns and the lines it prints.
compareTx(aldous, p2p) ==
    IF aldous.transaction # p2p.tx
        THEN [returned |-> "False", printed |-> <<"transaction mismatch">>]
    ELSE IF MetaDiffers(aldous, p2p) /\ p2p.meta.form # "dict"
        THEN [returned |-> "False", printed |-> <<"metadata mismatch">>]
    ELSE IF aldous.ledger_sequence # p2p.ledger_index
        THEN [returned |-> "True",
              printed |-> <<"ledger sequence mismatch", "responses match!!">>]
    ELSE [returned |-> "True", printed |-> <<"responses match!!">>]

InitTx ==
    /\ CrawlIdle /\ RestIdle
    /\ op = "compareTx"
    /\ argA \in AldousTx /\ argB \in P2pTx
    /\ baseA = argA /\ baseB = argB
    /\ cpc = "call" /\ verdict = "none" /\ report = NoReport

\* print(compareTx(res, res2))
ApplyCompareTx ==
    /\ cpc = "call" /\ op = "compareTx"
    /\ LET r == compareTx(argA, argB)
       IN  /\ verdict' = r.returned
           /\ report' = [report EXCEPT !.printed = r.printed]
    /\ cpc' = "returned"
    /\ UNCHANGED <<crawlVars, restVars, op, argA, argB, baseA, baseB>>

NextTx == ApplyCompareTx

SpecTx == InitTx /\ [][NextTx]_vars

\* C34: compareTx returns False whenever the ledger sequences of the two
\* responses differ.
C34_LedgerSequenceMismatch ==
    (cpc = "returned" /\ argA.ledger_sequence # argB.ledger_index) => verdict = "False"

\* C36: with the transactions equal, compareTx returns False exactly when
\* the metadata differ and the reference's metadata is not a mapping; against
\* a mapping it reports a match.
C36_MetaDifference ==
    (cpc = "returned" /\ argA.transaction = argB.tx)
        => /\ verdict = "False" <=> (MetaDiffers(argA, argB) /\ argB.meta.form # "dict")
           /\ argB.meta.form = "dict" => verdict = "True"

\* C36 witness: the reference returned its metadata as a mapping whose content
\* is not the candidate's, and compareTx reported a match.
C36_Witness ==
    /\ cpc = "returned" /\ argA.transaction = argB.tx
    /\ argB.meta.form = "dict" /\ argB.meta.val # argA.metadata
    /\ verdict = "True"

\* =================================================== connections: who uses which
\* The awaits of a coroutine on its connections, in program order. txs, and
\* ledgers alike, opens one connection and issues numCalls calls on it; verifySubscribe opens ws1
\* and ws2, asks ws1 for server_info, subscribes on both and reads the two
\* acknowledgements.
RECURSIVE Calls(_)
Calls(n) ==
    IF n = 0 THEN <<>>
    ELSE <<[do |-> "send", k |-> 1], [do |-> "recv", k |-> 1]>> \o Calls(n - 1)

Program(a, n) ==
    IF a \in {"txs", "ledgers"} THEN <<[do |-> "connect", k |-> 1]>> \o Calls(n)
    ELSE <<[do |-> "connect", k |-> 1], [do |-> "connect", k |-> 2],
           [do |-> "send", k |-> 1], [do |-> "recv", k |-> 1],
           [do |-> "send", k |-> 1], [do |-> "send", k |-> 2],
           [do |-> "recv", k |-> 1], [do |-> "recv", k |-> 2]>>

\* A coroutine taking the first connection there is instead of opening one.
connect_pooled(conns) == 1

\* websockets.connect(address) inside the coroutine: a connection of its own.
connect(conns) == Len(conns) + 1

NewConn(w) == [owner |-> w, users |-> {}, sent |-> 0, read |-> 0]

InitConn ==
    /\ CrawlIdle /\ RestIdle
    /\ op \in {"txs", "ledgers", "verifySubscribe"}
    /\ baseA \in 1..MaxRunners /\ baseB \in 1..MaxLoadCalls
    /\ op = "verifySubscribe" => (baseA = 1 /\ baseB = 1)
    /\ argA = <<>>
    /\ argB = [w \in 1..baseA |-> [at |-> 1, ws |-> <<>>]]
    /\ cpc = "call" /\ verdict = "none" /\ report = NoReport

\* What coroutine w awaits next.
Instr(w) == Program(op, baseB)[argB[w].at]

Running(w) == cpc = "call" /\ op \in {"txs", "ledgers", "verifySubscribe"}
                /\ argB[w].at <= Len(Program(op, baseB))

\* async with websockets.connect(address) as ws
Connect ==
    \E w \in DOMAIN argB :
        /\ Running(w) /\ Instr(w).do = "connect"
        /\ LET c == connect(argA)
           IN  /\ argA' = IF c > Len(argA) THEN Append(argA, NewConn(w)) ELSE argA
               /\ argB' = [argB EXCEPT ![w].at = @ + 1, ![w].ws = Append(@, c)]
        /\ UNCHANGED <<crawlVars, restVars, op, baseA, baseB, cpc, verdict, report>>

\* await ws.send(...)
ConnSend ==
    \E w \in DOMAIN argB :
        /\ Running(w) /\ Instr(w).do = "send"
        /\ LET c == argB[w].ws[Instr(w).k]
           IN  argA' = [argA EXCEPT ![c].sent = @ + 1, ![c].users = @ \cup {w}]
        /\ argB' = [argB EXCEPT ![w].at = @ + 1]
        /\ UNCHANGED <<crawlVars, restVars, op, baseA, baseB, cpc, verdict, report>>

\* await ws.recv(): it returns once the server has answered a request.
ConnRecv ==
    \E w \in DOMAIN argB :
        /\ Running(w) /\ Instr(w).do = "recv"
        /\ LET c == argB[w].ws[Instr(w).k]
           IN  /\ argA[c].read < argA[c].sent
               /\ argA' = [argA EXCEPT ![c].read = @ + 1, ![c].users = @ \cup {w}]
        /\ argB' = [argB EXCEPT ![w].at = @ + 1]
        /\ UNCHANGED <<crawlVars, restVars, op, baseA, baseB, cpc, verdict, report>>

NextConn == Connect \/ ConnSend \/ ConnRecv

SpecConn == InitConn /\ [][NextConn]_vars

\* C35: a connection is used by the coroutine that opened it and by no other,
\* no two coroutines hold the same connection, and a connection has at most
\* one request not yet answered.
C35_OwnConnection ==
    /\ \A c \in DOMAIN argA :
        /\ argA[c].users \subseteq {argA[c].owner}
        /\ argA[c].sent - argA[c].read \in {0, 1}
    /\ \A w \in DOMAIN argB : \A i \in DOMAIN argB[w].ws : argA[argB[w].ws[i]].owner = w
    /\ \A w, v \in DOMAIN argB :
        w # v => ToSet(argB[w].ws) \cap ToSet(argB[v].ws) = {}

\* C35 witness: two txs workers, each on its own connection, one with its
\* call answered and the other with its request under way.
C35_Witness ==
    /\ op = "txs" /\ Len(argB) = 2 /\ Len(argA) = 2
    /\ argA[1].users = {argA[1].owner} /\ argA[2].users = {argA[2].owner}
    /\ argA[1].owner # argA[2].owner
    /\ argA[1].read = 1 /\ argA[2].sent = 1 /\ argA[2].read = 0

\* =================================================== ledger_data_full: the limit
\* The page size below which ledger_data_full does not ask.
MinLimit == 2048

\* The limits a caller may pass.
Limits == {1, MinLimit - 1, MinLimit, MinLimit + 1, 2 * MinLimit}

\* The limit sent as the caller gave it.
limit_asked(limit) == limit

\* if int(limit) < 2048: limit = 2048
limit_raised(limit) == IF limit < MinLimit THEN MinLimit ELSE limit

InitLimit ==
    /\ CrawlIdle /\ RestIdle
    /\ op = "ledger_data_full"
    /\ argA \in Limits
    /\ argB = [limit |-> argA, marker |-> None]
    /\ baseA = argA /\ baseB = argB
    /\ cpc = "call"
    /\ verdict = <<>>
    /\ report = NoReport

\* The connection is opened and the limit raised, once, before the loop.
EnterLoop ==
    /\ cpc = "call" /\ op = "ledger_data_full"
    /\ argB' = [argB EXCEPT !.limit = limit_raised(@)]
    /\ cpc' = "send"
    /\ UNCHANGED <<crawlVars, restVars, op, argA, baseA, baseB, verdict, report>>

\* ws.send of the ledger_data request, with or without a marker.
SendLimit ==
    /\ cpc = "send" /\ Len(verdict) < MaxFetch
    /\ verdict' = Append(verdict, [limit |-> argB.limit, marker |-> argB.marker])
    /\ cpc' = "recv"
    /\ UNCHANGED <<crawlVars, restVars, op, argA, argB, baseA, baseB, report>>

\* The response: an error (continue), a page with a cursor, or the last page.
RecvLimit ==
    /\ cpc = "recv"
    /\ \E r \in {"error", "cursor", "last"} :
        /\ argB' = IF r = "cursor" THEN [argB EXCEPT !.marker = @ + 1] ELSE argB
        /\ cpc' = IF r = "last" THEN "returned" ELSE "send"
    /\ UNCHANGED <<crawlVars, restVars, op, argA, baseA, baseB, verdict, report>>

NextLimit == EnterLoop \/ SendLimit \/ RecvLimit

SpecLimit == InitLimit /\ [][NextLimit]_vars

\* C37: every request of a crawl carries the limit max(requested, 2048).
C37_LimitFloor ==
    \A i \in DOMAIN verdict : verdict[i].limit = Max(argA, MinLimit)

\* C37 witness: a crawl asked for 2047 has sent a first request and, after a
\* page, a second one with the marker.
C37_Witness ==
    /\ argA = MinLimit - 1 /\ Len(verdict) >= 2
    /\ verdict[1].marker = None /\ verdict[2].marker # None

\* =================================================== run: account_tx with verify
\* bool(x) of a ledger sequence or None.
PyBool(x) == x # None

\* The request account_tx sends: the ledger range is in it only when both
\* minLedger and maxLedger are given.
account_tx_request(binary, forward, minLedger, maxLedger) ==
    IF minLedger = None \/ maxLedger = None
        THEN [binary |-> binary, forward |-> forward, ranged |-> FALSE,
              ledger_index_min |-> None, ledger_index_max |-> None]
        ELSE [binary |-> binary, forward |-> forward, ranged |-> TRUE,
              ledger_index_min |-> minLedger, ledger_index_max |-> maxLedger]

\* account_tx(p2pIp, p2pPort, account, binary, rng[0], rng[1]): the fifth and
\* sixth positional arguments are forward and minLedger; maxLedger keeps its
\* default.
VerifyRequest(binary, rng) == account_tx_request(binary, PyBool(rng[1]), rng[2], None)

InitVerifyAccountTx ==
    /\ CrawlIdle /\ RestIdle
    /\ op = "account_tx"
    /\ argA \in SeqUpTo(AldousTxs, MaxTx)
    /\ argB \in BOOLEAN
    /\ baseA = argA /\ baseB = argB
    /\ cpc = "call"
    /\ verdict = account_tx_request(TRUE, argB, None, None)
    /\ report = NoReport

\* rng = getMinAndMax(res), then the reference is asked.
AskReference ==
    /\ cpc = "call" /\ op = "account_tx"
    /\ verdict' = VerifyRequest(TRUE, getMinAndMax(argA))
    /\ cpc' = "returned"
    /\ UNCHANGED <<crawlVars, restVars, op, argA, argB, baseA, baseB, report>>

NextVerifyAccountTx == AskReference

SpecVerifyAccountTx == InitVerifyAccountTx /\ [][NextVerifyAccountTx]_vars

\* C38: the request sent to the reference carries as ledger_index_min and
\* ledger_index_max the least and the greatest ledger sequence of the
\* candidate's transactions.
C38_SameRange ==
    (cpc = "returned" /\ op = "account_tx" /\ argA # <<>>)
        => /\ verdict.ranged
           /\ verdict.ledger_index_min = getMinAndMax(argA)[1]
           /\ verdict.ledger_index_max = getMinAndMax(argA)[2]

====
